---- MODULE Spec2Model ----
(***************************************************************************)
(* Model of http-types' proxies::Forwarded (src/src/proxies/forwarded.rs):  *)
(* the Forwarded header parser, the X-Forwarded-* adapter, the source       *)
(* selector and the serializer.                                             *)
(*                                                                          *)
(* A Rust &str / String is a sequence of one-character strings, so that     *)
(* slicing, trimming, quoting and escaping are computed character by        *)
(* character.  Option<T> is a record [some |-> BOOLEAN, val |-> T].  A      *)
(* Rust panic (an out-of-range slice) is the outcome kind "panic".          *)
(***************************************************************************)
EXTENDS Integers, Sequences, FiniteSets, TLC

(***************************************************************************)
(* Bounds of the model.                                                     *)
(***************************************************************************)
MaxChunks == 4      \* raw inputs: at most this many chunks
MaxItems == 2       \* for-run inputs: at most this many for= items
MaxPairs == 3       \* pair-list inputs: at most this many key=value pairs
MaxFor == 2         \* built models: at most this many for entries
MaxSegs == 2        \* X-Forwarded-For: at most this many segments

(***************************************************************************)
(* Strings and characters.                                                  *)
(***************************************************************************)
DQ == "\""
BS == "\\"
SP == " "

None == [some |-> FALSE, val |-> <<>>]
Some(v) == [some |-> TRUE, val |-> v]

RECURSIVE Concat(_)
Concat(ss) == IF ss = <<>> THEN <<>> ELSE Head(ss) \o Concat(Tail(ss))

RECURSIVE Join(_, _)
Join(ss, sep) ==
    IF ss = <<>> THEN <<>>
    ELSE IF Len(ss) = 1 THEN ss[1]
    ELSE ss[1] \o sep \o Join(Tail(ss), sep)

SeqsUpTo(S, n) == UNION {[1..k -> S] : k \in 0..n}

DropFirst(s, n) == SubSeq(s, n + 1, Len(s))

\* char::to_ascii_lowercase on the letters the inputs use
to_ascii_lowercase(c) ==
    CASE c = "F" -> "f"
      [] c = "O" -> "o"
      [] c = "R" -> "r"
      [] c = "B" -> "b"
      [] c = "Y" -> "y"
      [] c = "A" -> "a"
      [] OTHER -> c

eq_ignore_ascii_case(a, b) ==
    /\ Len(a) = Len(b)
    /\ \A i \in 1..Len(a) : to_ascii_lowercase(a[i]) = to_ascii_lowercase(b[i])

\* char::is_whitespace on the characters the inputs use
is_whitespace(c) == c \in {" ", "\t"}

RECURSIVE trim_start(_)
trim_start(s) ==
    IF s # <<>> /\ is_whitespace(Head(s)) THEN trim_start(Tail(s)) ELSE s

RECURSIVE trim_end(_)
trim_end(s) ==
    IF s # <<>> /\ is_whitespace(s[Len(s)])
    THEN trim_end(SubSeq(s, 1, Len(s) - 1)) ELSE s

trim(s) == trim_end(trim_start(s))

(***************************************************************************)
(* Value Lexer (crate::parse_utils, spec section 4.1).                      *)
(***************************************************************************)
TokenDelims ==
    {DQ, "(", ")", ",", "/", ":", ";", "<", "=", ">", "?", "@", "[", BS, "]",
     "{", "}"}

\* token grammar: visible ASCII excluding the delimiters, space and controls
tchar(c) == c \notin TokenDelims /\ ~is_whitespace(c)

RECURSIVE TokenLen(_)
TokenLen(s) ==
    IF s # <<>> /\ tchar(Head(s)) THEN 1 + TokenLen(Tail(s)) ELSE 0

\* (Option<&str>, &str): the maximal token prefix and the unconsumed rest
parse_token(input) ==
    LET n == TokenLen(input) IN
    IF n = 0 THEN [tok |-> None, rest |-> input]
    ELSE [tok |-> Some(SubSeq(input, 1, n)), rest |-> DropFirst(input, n)]

\* scan of a quoted-string body from position i: \X is the literal X, an
\* unescaped quote closes the string, running out of input is no value
RECURSIVE QuotedScan(_, _, _)
QuotedScan(input, i, acc) ==
    IF i > Len(input) THEN [tok |-> None, rest |-> input]
    ELSE IF input[i] = BS
         THEN IF i + 1 > Len(input) THEN [tok |-> None, rest |-> input]
              ELSE QuotedScan(input, i + 2, Append(acc, input[i + 1]))
    ELSE IF input[i] = DQ
         THEN [tok |-> Some(acc), rest |-> DropFirst(input, i)]
    ELSE QuotedScan(input, i + 1, Append(acc, input[i]))

parse_quoted_string(input) ==
    IF input = <<>> \/ Head(input) # DQ THEN [tok |-> None, rest |-> input]
    ELSE QuotedScan(input, 2, <<>>)

(***************************************************************************)
(* forwarded.rs: helpers.                                                   *)
(***************************************************************************)
ForEq == <<"f", "o", "r", "=">>
ByKey == <<"b", "y">>
ForKey == <<"f", "o", "r">>
HostKey == <<"h", "o", "s", "t">>
ProtoKey == <<"p", "r", "o", "t", "o">>

\* mutant: a missing value is read as the empty string
parse_value_or_empty(input) ==
    LET t == parse_token(input) IN
    IF t.tok.some THEN t
    ELSE LET q == parse_quoted_string(t.rest) IN
         IF q.tok.some THEN q ELSE [tok |-> Some(<<>>), rest |-> q.rest]

\* fn parse_value: a token, else a quoted string
parse_value(input) ==
    LET t == parse_token(input) IN
    IF t.tok.some THEN t ELSE parse_quoted_string(t.rest)

RECURSIVE EscapeQuoted(_)
EscapeQuoted(s) ==
    IF s = <<>> THEN <<>>
    ELSE (IF Head(s) \in {BS, DQ} THEN <<BS, Head(s)>> ELSE <<Head(s)>>)
         \o EscapeQuoted(Tail(s))

\* mutant: the value is put between quotes without escaping
format_value_unescaped(input) ==
    IF parse_token(input).rest = <<>> THEN input
    ELSE <<DQ>> \o input \o <<DQ>>

\* fn format_value: `(_, "") => input`, anything else is quoted and escaped
format_value(input) ==
    IF parse_token(input).rest = <<>> THEN input
    ELSE <<DQ>> \o EscapeQuoted(input) \o <<DQ>>

\* mutant: for= is matched in exact case
match_exact_case(start, input) ==
    LET len == Len(start) IN
    IF len > Len(input)
    THEN [panic |-> TRUE, matched |-> FALSE, rest |-> input]
    ELSE IF SubSeq(input, 1, len) = start
         THEN [panic |-> FALSE, matched |-> TRUE, rest |-> DropFirst(input, len)]
         ELSE [panic |-> FALSE, matched |-> FALSE, rest |-> input]

\* fn match_ignore_case: `input[..len]` panics when input is shorter than len
match_ignore_case(start, input) ==
    LET len == Len(start) IN
    IF len > Len(input)
    THEN [panic |-> TRUE, matched |-> FALSE, rest |-> input]
    ELSE IF eq_ignore_ascii_case(SubSeq(input, 1, len), start)
         THEN [panic |-> FALSE, matched |-> TRUE, rest |-> DropFirst(input, len)]
         ELSE [panic |-> FALSE, matched |-> FALSE, rest |-> input]

\* fn starts_with_ignore_case: the same unguarded slice
starts_with_ignore_case(start, input) ==
    LET len == Len(start) IN
    IF len > Len(input) THEN [panic |-> TRUE, matched |-> FALSE]
    ELSE [panic |-> FALSE,
          matched |-> eq_ignore_ascii_case(SubSeq(input, 1, len), start)]

(***************************************************************************)
(* struct Forwarded and its builders.                                       *)
(***************************************************************************)
\* Forwarded::new() / Default
new == [by |-> None, forwarded_for |-> <<>>, host |-> None, proto |-> None]

set_host(self, host) == [self EXCEPT !.host = Some(host)]
with_proto(self, proto) == [self EXCEPT !.proto = Some(proto)]
\* mutant: an entry already in the list is not added again
add_for_once(self, forwarded_for) ==
    IF \E i \in 1..Len(self.forwarded_for) : self.forwarded_for[i] = forwarded_for
    THEN self
    ELSE [self EXCEPT !.forwarded_for = Append(@, forwarded_for)]

add_for(self, forwarded_for) ==
    [self EXCEPT !.forwarded_for = Append(@, forwarded_for)]
with_for(self, forwarded_for) == add_for(self, forwarded_for)
with_host(self, host) == set_host(self, host)
set_by(self, by) == [self EXCEPT !.by = Some(by)]
with_by(self, by) == set_by(self, by)

\* Cow<'a, str>: a view into the header source, or a string of its own
Borrowed(s) == [cow |-> "Borrowed", str |-> s]
Owned(s) == [cow |-> "Owned", str |-> s]

\* mutant: by is handed over as it is
into_owned_keeps_by(self) ==
    [by |-> self.by,
     forwarded_for |->
        [i \in 1..Len(self.forwarded_for) |-> Owned(self.forwarded_for[i].str)],
     host |-> IF self.host.some THEN Some(Owned(self.host.val.str)) ELSE None,
     proto |-> IF self.proto.some THEN Some(Owned(self.proto.val.str)) ELSE None]

\* fn into_owned, on a Forwarded whose slots are Cows
into_owned(self) ==
    [by |-> IF self.by.some THEN Some(Owned(self.by.val.str)) ELSE None,
     forwarded_for |->
        [i \in 1..Len(self.forwarded_for) |-> Owned(self.forwarded_for[i].str)],
     host |-> IF self.host.some THEN Some(Owned(self.host.val.str)) ELSE None,
     proto |-> IF self.proto.some THEN Some(Owned(self.proto.val.str)) ELSE None]

(***************************************************************************)
(* The pair grammar parser.                                                 *)
(***************************************************************************)
\* ParseError messages (the source writes the duplicated key in backquotes)
ErrPair == "parse error in forwarded-pair"
ErrDupBy == "parse error, duplicate by key"
ErrDupHost == "parse error, duplicate host key"
ErrDupProto == "parse error, duplicate proto key"
ErrListStart == "http list must start with for="
ErrForValue == "for= without valid value"
ErrAfterFor == "unexpected character after for= section"

Step(kind, self, rest, msg) ==
    [kind |-> kind, self |-> self, rest |-> rest, msg |-> msg]

\* mutant: a repeated host overwrites the earlier one
StorePairLastHostWins(self, key, value) ==
    IF key = ByKey
    THEN IF self.by.some THEN [err |-> ErrDupBy, self |-> self]
         ELSE [err |-> "", self |-> [self EXCEPT !.by = Some(value)]]
    ELSE IF key = HostKey
    THEN [err |-> "", self |-> [self EXCEPT !.host = Some(value)]]
    ELSE IF key = ProtoKey
    THEN IF self.proto.some THEN [err |-> ErrDupProto, self |-> self]
         ELSE [err |-> "", self |-> [self EXCEPT !.proto = Some(value)]]
    ELSE [err |-> "", self |-> self]

\* parse_forwarded_pair, `match key { ... }`
StorePair(self, key, value) ==
    IF key = ByKey
    THEN IF self.by.some THEN [err |-> ErrDupBy, self |-> self]
         ELSE [err |-> "", self |-> [self EXCEPT !.by = Some(value)]]
    ELSE IF key = HostKey
    THEN IF self.host.some THEN [err |-> ErrDupHost, self |-> self]
         ELSE [err |-> "", self |-> [self EXCEPT !.host = Some(value)]]
    ELSE IF key = ProtoKey
    THEN IF self.proto.some THEN [err |-> ErrDupProto, self |-> self]
         ELSE [err |-> "", self |-> [self EXCEPT !.proto = Some(value)]]
    ELSE [err |-> "", self |-> self]     \* extensions are allowed

\* fn parse_forwarded_pair
parse_forwarded_pair(self, input) ==
    LET k == parse_token(input) IN
    IF ~(k.tok.some /\ k.rest # <<>> /\ Head(k.rest) = "=")
    THEN Step("err", self, input, ErrPair)
    ELSE
    LET v == parse_value(Tail(k.rest)) IN
    IF ~v.tok.some THEN Step("err", self, input, ErrPair)
    ELSE
    LET st == StorePair(self, k.tok.val, v.tok.val) IN
    IF st.err # "" THEN Step("err", self, input, st.err)
    ELSE IF v.rest # <<>> /\ Head(v.rest) = ";"
         THEN Step("ok", st.self, Tail(v.rest), "")
         ELSE Step("ok", st.self, v.rest, "")

\* mutant: the text after a comma is not trimmed
AfterCommaNoTrim(rest) == Tail(rest)

\* parse_for, `Some(',') => rest = rest[1..].trim_start()`
AfterComma(rest) == trim_start(Tail(rest))

\* mutant: the ';' arm breaks without moving past what the iteration read
ParseForBodyRewinds(self, rest0) ==
    LET m == match_ignore_case(ForEq, rest0) IN
    IF m.panic THEN Step("panic", self, rest0, "")
    ELSE IF ~m.matched THEN Step("err", self, rest0, ErrListStart)
    ELSE
    LET v == parse_value(m.rest) IN
    IF ~v.tok.some THEN Step("err", self, v.rest, ErrForValue)
    ELSE
    LET pushed == [self EXCEPT !.forwarded_for = Append(@, v.tok.val)] IN
    IF v.rest = <<>> THEN Step("break", pushed, v.rest, "")
    ELSE IF Head(v.rest) = "," THEN Step("continue", pushed, AfterComma(v.rest), "")
    ELSE IF Head(v.rest) = ";" THEN Step("break", pushed, rest0, "")
    ELSE Step("err", pushed, v.rest, ErrAfterFor)

\* one iteration of the loop of parse_for
ParseForBody(self, rest0) ==
    LET m == match_ignore_case(ForEq, rest0) IN
    IF m.panic THEN Step("panic", self, rest0, "")
    ELSE IF ~m.matched THEN Step("err", self, rest0, ErrListStart)
    ELSE
    LET v == parse_value(m.rest) IN
    IF ~v.tok.some THEN Step("err", self, v.rest, ErrForValue)
    ELSE
    LET pushed == [self EXCEPT !.forwarded_for = Append(@, v.tok.val)] IN
    IF v.rest = <<>> THEN Step("break", pushed, v.rest, "")
    ELSE IF Head(v.rest) = "," THEN Step("continue", pushed, AfterComma(v.rest), "")
    ELSE IF Head(v.rest) = ";" THEN Step("break", pushed, Tail(v.rest), "")
    ELSE Step("err", pushed, v.rest, ErrAfterFor)

RECURSIVE parse_for(_, _)
\* fn parse_for
parse_for(self, input) ==
    LET b == ParseForBody(self, input) IN
    IF b.kind = "continue" THEN parse_for(b.self, b.rest)
    ELSE IF b.kind = "break" THEN Step("ok", b.self, b.rest, "")
    ELSE b

Outcome(kind, fwd, msg) == [kind |-> kind, fwd |-> fwd, msg |-> msg]

RECURSIVE ParsePairs(_, _)
\* parse, `while !input.is_empty() { input = parse_forwarded_pair(input)? }`
ParsePairs(forwarded, input) ==
    IF input = <<>> THEN Outcome("ok", forwarded, "")
    ELSE LET p == parse_forwarded_pair(forwarded, input) IN
         IF p.kind = "ok" THEN ParsePairs(p.self, p.rest)
         ELSE Outcome(p.kind, new, p.msg)

\* fn parse: Ok(forwarded), Err(ParseError(msg)) or a panic
parse(input) ==
    LET s == starts_with_ignore_case(ForEq, input) IN
    IF s.panic THEN Outcome("panic", new, "")
    ELSE IF s.matched
    THEN LET f == parse_for(new, input) IN
         IF f.kind = "ok" THEN ParsePairs(f.self, f.rest)
         ELSE Outcome(f.kind, new, f.msg)
    ELSE ParsePairs(new, input)

(***************************************************************************)
(* The serializer.                                                          *)
(***************************************************************************)
ForEntries(ff) == [i \in 1..Len(ff) |-> ForEq \o format_value(ff[i])]

\* mutant: proto is written before host
value_proto_first(self) ==
    LET buf ==
           (IF self.by.some THEN ByKey \o <<"=">> \o self.by.val \o <<";">>
            ELSE <<>>)
        \o Join(ForEntries(self.forwarded_for), <<",", SP>>)
        \o <<";">>
        \o (IF self.proto.some
            THEN ProtoKey \o <<"=">> \o self.proto.val \o <<";">>
            ELSE <<>>)
        \o (IF self.host.some THEN HostKey \o <<"=">> \o self.host.val \o <<";">>
            ELSE <<>>)
    IN SubSeq(buf, 1, Len(buf) - 1)

\* fn value
value(self) ==
    LET buf ==
           (IF self.by.some THEN ByKey \o <<"=">> \o self.by.val \o <<";">>
            ELSE <<>>)
        \o Join(ForEntries(self.forwarded_for), <<",", SP>>)
        \o <<";">>
        \o (IF self.host.some THEN HostKey \o <<"=">> \o self.host.val \o <<";">>
            ELSE <<>>)
        \o (IF self.proto.some
            THEN ProtoKey \o <<"=">> \o self.proto.val \o <<";">>
            ELSE <<>>)
    IN SubSeq(buf, 1, Len(buf) - 1)      \* buf.pop()

(***************************************************************************)
(* The legacy adapter and the source selector.                              *)
(***************************************************************************)
\* str::parse::<IpAddr>() on the literals the headers use; `shown` is what
\* Display prints for the parsed address (lowercase, zero run compressed)
IpLiterals ==
    { [text |-> <<"1", ".", "2", ".", "3", ".", "4">>, kind |-> "V4",
       shown |-> <<"1", ".", "2", ".", "3", ".", "4">>],
      [text |-> <<":", ":", "1">>, kind |-> "V6", shown |-> <<":", ":", "1">>],
      [text |-> <<"0", ":", ":", "1">>, kind |-> "V6",
       shown |-> <<":", ":", "1">>],
      [text |-> <<"A", ":", ":">>, kind |-> "V6", shown |-> <<"a", ":", ":">>],
      [text |-> <<"a", ":", ":">>, kind |-> "V6", shown |-> <<"a", ":", ":">>] }

ParseIpAddr(v) ==
    IF \E l \in IpLiterals : l.text = v
    THEN CHOOSE l \in IpLiterals : l.text = v
    ELSE [text |-> v, kind |-> "none", shown |-> v]

RECURSIVE split(_, _)
\* str::split(c): the segments between the separators, at least one
split(s, c) ==
    IF \E i \in 1..Len(s) : s[i] = c
    THEN LET i == CHOOSE j \in 1..Len(s) :
                      s[j] = c /\ \A k \in 1..(j - 1) : s[k] # c
         IN <<SubSeq(s, 1, i - 1)>> \o split(DropFirst(s, i), c)
    ELSE <<s>>

\* mutant: the segment is not trimmed
XForSegmentUntrimmed(v) ==
    LET ip == ParseIpAddr(v) IN
    IF ip.kind = "V6" THEN <<"[">> \o ip.shown \o <<"]">> ELSE v

\* from_x_headers, the closure mapped over the segments
XForSegment(v) ==
    LET t == trim(v)
        ip == ParseIpAddr(t)
    IN IF ip.kind = "V6" THEN <<"[">> \o ip.shown \o <<"]">> ELSE t

XForList(hv) ==
    LET segs == split(hv, ",") IN [i \in 1..Len(segs) |-> XForSegment(segs[i])]

\* mutant: a model is returned only when there is a for entry
from_x_headers_for_only(headers) ==
    LET forwarded_for == IF headers.x_forwarded_for.some
                         THEN XForList(headers.x_forwarded_for.val) ELSE <<>>
    IN IF forwarded_for # <<>>
       THEN Outcome("some", [by |-> headers.x_forwarded_by,
                             forwarded_for |-> forwarded_for,
                             host |-> None,
                             proto |-> headers.x_forwarded_proto], "")
       ELSE Outcome("none", new, "")

\* fn from_x_headers
from_x_headers(headers) ==
    LET forwarded_for == IF headers.x_forwarded_for.some
                         THEN XForList(headers.x_forwarded_for.val) ELSE <<>>
        by == headers.x_forwarded_by
        proto == headers.x_forwarded_proto
    IN IF forwarded_for # <<>> \/ by.some \/ proto.some
       THEN Outcome("some", [by |-> by, forwarded_for |-> forwarded_for,
                             host |-> None, proto |-> proto], "")
       ELSE Outcome("none", new, "")

\* `Ok(Some(Self::parse(..)?))`: an error (or panic) of parse propagates
OkSome(p) == IF p.kind = "ok" THEN Outcome("some", p.fwd, "") ELSE p

\* fn from_forwarded_header
from_forwarded_header(headers) ==
    IF headers.forwarded.some THEN OkSome(parse(headers.forwarded.val))
    ELSE Outcome("none", new, "")

\* mutant: a malformed Forwarded header falls back to the X- headers
SelectFallback(forwarded, headers) ==
    IF forwarded.kind = "some" THEN forwarded ELSE from_x_headers(headers)

\* from_headers, `if let Some(forwarded) = from_forwarded_header(headers)?`
Select(forwarded, headers) ==
    IF forwarded.kind = "none" THEN from_x_headers(headers) ELSE forwarded

\* fn from_headers
from_headers(headers) == Select(from_forwarded_header(headers), headers)

(***************************************************************************)
(* status_code.rs.  A StatusCode is <<variant>>, or                         *)
(* <<"OtherInvalidStatusCode", n>> with n a u16; the derived PartialEq      *)
(* compares the variant and its number, as = does on these tuples.          *)
(***************************************************************************)
Other == "OtherInvalidStatusCode"

\* impl Into<u16> for StatusCode: the arms Self::Variant => number
IntoArms ==
    {<<"Continue", 100>>, <<"SwitchingProtocols", 101>>,
     <<"EarlyHints", 103>>, <<"Ok", 200>>, <<"Created", 201>>,
     <<"Accepted", 202>>, <<"NonAuthoritativeInformation", 203>>,
     <<"NoContent", 204>>, <<"ResetContent", 205>>,
     <<"PartialContent", 206>>, <<"MultiStatus", 207>>, <<"ImUsed", 226>>,
     <<"MultipleChoice", 300>>, <<"MovedPermanently", 301>>,
     <<"Found", 302>>, <<"SeeOther", 303>>, <<"NotModified", 304>>,
     <<"TemporaryRedirect", 307>>, <<"PermanentRedirect", 308>>,
     <<"BadRequest", 400>>, <<"Unauthorized", 401>>,
     <<"PaymentRequired", 402>>, <<"Forbidden", 403>>, <<"NotFound", 404>>,
     <<"MethodNotAllowed", 405>>, <<"NotAcceptable", 406>>,
     <<"ProxyAuthenticationRequired", 407>>, <<"RequestTimeout", 408>>,
     <<"Conflict", 409>>, <<"Gone", 410>>, <<"LengthRequired", 411>>,
     <<"PreconditionFailed", 412>>, <<"PayloadTooLarge", 413>>,
     <<"UriTooLong", 414>>, <<"UnsupportedMediaType", 415>>,
     <<"RequestedRangeNotSatisfiable", 416>>, <<"ExpectationFailed", 417>>,
     <<"ImATeapot", 418>>, <<"MisdirectedRequest", 421>>,
     <<"UnprocessableEntity", 422>>, <<"Locked", 423>>,
     <<"FailedDependency", 424>>, <<"TooEarly", 425>>,
     <<"UpgradeRequired", 426>>, <<"PreconditionRequired", 428>>,
     <<"TooManyRequests", 429>>, <<"RequestHeaderFieldsTooLarge", 431>>,
     <<"UnavailableForLegalReasons", 451>>, <<"InternalServerError", 500>>,
     <<"NotImplemented", 501>>, <<"BadGateway", 502>>,
     <<"ServiceUnavailable", 503>>, <<"GatewayTimeout", 504>>,
     <<"HttpVersionNotSupported", 505>>, <<"VariantAlsoNegotiates", 506>>,
     <<"InsufficientStorage", 507>>, <<"LoopDetected", 508>>,
     <<"NotExtended", 510>>, <<"NetworkAuthenticationRequired", 511>>}

\* impl From<u16> for StatusCode: the arms number => Self::Variant
FromArms ==
    {<<100, "Continue">>, <<101, "SwitchingProtocols">>,
     <<103, "EarlyHints">>, <<200, "Ok">>, <<201, "Created">>,
     <<202, "Accepted">>, <<203, "NonAuthoritativeInformation">>,
     <<204, "NoContent">>, <<205, "ResetContent">>,
     <<206, "PartialContent">>, <<207, "MultiStatus">>, <<226, "ImUsed">>,
     <<300, "MultipleChoice">>, <<301, "MovedPermanently">>,
     <<302, "Found">>, <<303, "SeeOther">>, <<304, "NotModified">>,
     <<307, "TemporaryRedirect">>, <<308, "PermanentRedirect">>,
     <<400, "BadRequest">>, <<401, "Unauthorized">>,
     <<402, "PaymentRequired">>, <<403, "Forbidden">>, <<404, "NotFound">>,
     <<405, "MethodNotAllowed">>, <<406, "NotAcceptable">>,
     <<407, "ProxyAuthenticationRequired">>, <<408, "RequestTimeout">>,
     <<409, "Conflict">>, <<410, "Gone">>, <<411, "LengthRequired">>,
     <<412, "PreconditionFailed">>, <<413, "PayloadTooLarge">>,
     <<414, "UriTooLong">>, <<415, "UnsupportedMediaType">>,
     <<416, "RequestedRangeNotSatisfiable">>, <<417, "ExpectationFailed">>,
     <<418, "ImATeapot">>, <<421, "MisdirectedRequest">>,
     <<422, "UnprocessableEntity">>, <<423, "Locked">>,
     <<424, "FailedDependency">>, <<425, "TooEarly">>,
     <<426, "UpgradeRequired">>, <<428, "PreconditionRequired">>,
     <<429, "TooManyRequests">>, <<431, "RequestHeaderFieldsTooLarge">>,
     <<451, "UnavailableForLegalReasons">>, <<500, "InternalServerError">>,
     <<501, "NotImplemented">>, <<502, "BadGateway">>,
     <<503, "ServiceUnavailable">>, <<504, "GatewayTimeout">>,
     <<505, "HttpVersionNotSupported">>, <<506, "VariantAlsoNegotiates">>,
     <<507, "InsufficientStorage">>, <<508, "LoopDetected">>,
     <<510, "NotExtended">>, <<511, "NetworkAuthenticationRequired">>}

into(self) ==
    IF self[1] = Other THEN self[2]
    ELSE (CHOOSE a \in IntoArms : a[1] = self[1])[2]

from(n) ==
    IF \E a \in FromArms : a[1] = n
    THEN <<(CHOOSE a \in FromArms : a[1] = n)[2]>>
    ELSE <<Other, n>>

\* fn code
code(self) == into(self)

\* `v as u16`: the low 16 bits of v
U16Modulus == 65536

as_u16(v) == v % U16Modulus

\* StatusCodeU16Visitor
visit_u16(v) == from(v)
visit_i16(v) == visit_u16(as_u16(v))
visit_i32(v) == visit_u16(as_u16(v))
visit_i64(v) == visit_u16(as_u16(v))
visit_u32(v) == visit_u16(as_u16(v))
visit_u64(v) == visit_u16(as_u16(v))

\* the visitor method the deserializer calls for an integer of type t
Visit(t, v) ==
    CASE t = "i16" -> visit_i16(v)
      [] t = "i32" -> visit_i32(v)
      [] t = "i64" -> visit_i64(v)
      [] t = "u16" -> visit_u16(v)
      [] t = "u32" -> visit_u32(v)
      [] t = "u64" -> visit_u64(v)

(***************************************************************************)
(* State.                                                                   *)
(*   headers  the header source: Forwarded and the three X-Forwarded-*      *)
(*   fwd      the Forwarded a caller builds with the builders               *)
(*   text     the string in hand: a raw header value, or value()'s output   *)
(*   result   what the last parse / from_* call returned                    *)
(*   op       the last operation performed                                  *)
(*   origin   how the input (text, headers, or status) was written down     *)
(*   owned    the Forwarded<'static> that into_owned returned, each slot a  *)
(*            Cow: [cow |-> "Borrowed" or "Owned", str |-> its string]      *)
(*   status   the StatusCode in hand                                        *)
(*   num      the u16 in hand                                               *)
(***************************************************************************)
VARIABLES headers, fwd, text, result, op, origin, owned, status, num

vars == <<headers, fwd, text, result, op, origin, owned, status, num>>

\* no StatusCode in hand
NoStatus == <<>>

\* the entry points of Forwarded leave the status and its number alone
NoStatusInit == status = NoStatus /\ num = 0

NoResult == Outcome("unset", new, "")

NoHeaders ==
    [forwarded |-> None, x_forwarded_for |-> None, x_forwarded_by |-> None,
     x_forwarded_proto |-> None]

(***************************************************************************)
(* Inputs of parse.  A value is written as a bare token, between quotes, or *)
(* between quotes with every character escaped by a backslash.              *)
(***************************************************************************)
RECURSIVE BackslashEach(_)
BackslashEach(s) ==
    IF s = <<>> THEN <<>> ELSE <<BS, Head(s)>> \o BackslashEach(Tail(s))

WriteVal(val, style) ==
    CASE style = "token" -> val
      [] style = "quoted" -> <<DQ>> \o val \o <<DQ>>
      [] style = "escaped" -> <<DQ>> \o BackslashEach(val) \o <<DQ>>

WritePair(p) == p.key \o <<"=">> \o WriteVal(p.val, p.style)

WritePairs(ps) == Join([i \in 1..Len(ps) |-> WritePair(ps[i])], <<";">>)

Pair(key, val, style) == [key |-> key, val |-> val, style |-> style]

Spaces(n) == [i \in 1..n |-> SP]

\* raw inputs: any concatenation of a few chunks
Chunks ==
    {ForEq, ByKey, <<"a">>, <<",">>, <<";">>, <<SP>>, <<"=">>, <<DQ>>}

RawOrigins ==
    {[kind |-> "raw", chunks |-> cs] : cs \in SeqsUpTo(Chunks, MaxChunks)}

\* for-run inputs: for=v1,<spaces>for=v2... then optionally ';' and pairs
ForItems ==
    {Pair(ForKey, <<"a">>, "token"), Pair(ForKey, <<"b", ";">>, "quoted"),
     Pair(ForKey, <<>>, "quoted"), Pair(ForKey, <<DQ, BS, ",">>, "escaped")}

ForTails ==
    {[closed |-> FALSE, pairs |-> <<>>],
     [closed |-> TRUE, pairs |-> <<>>],
     [closed |-> TRUE, pairs |-> <<Pair(ByKey, <<"x">>, "token")>>],
     [closed |-> TRUE, pairs |-> <<Pair(ProtoKey, <<"p">>, "token"),
                                   Pair(ByKey, <<"x", SP, "=">>, "quoted"),
                                   Pair(HostKey, <<"h">>, "escaped")>>]}

ForRunOrigins ==
    {[kind |-> "forrun", items |-> is, spaces |-> n, closed |-> t.closed,
      pairs |-> t.pairs] :
        is \in (SeqsUpTo(ForItems, MaxItems) \ {<<>>}), n \in 0..2,
        t \in ForTails}

\* pair-list inputs: key=value pairs separated by ';'
PairItems ==
    {Pair(ByKey, <<"a">>, "token"), Pair(ByKey, <<"b", ";">>, "quoted"),
     Pair(HostKey, <<"a">>, "token"), Pair(HostKey, <<"c">>, "token"),
     Pair(ProtoKey, <<"a">>, "token"), Pair(ForKey, <<"a">>, "token"),
     Pair(ForKey, <<"c">>, "token"), Pair(<<"x">>, <<"a">>, "token")}

PairOrigins ==
    {[kind |-> "pairs", pairs |-> ps] :
        ps \in (SeqsUpTo(PairItems, MaxPairs) \ {<<>>})}

\* for-run inputs whose last for= has no valid value after it
NoValueTails ==
    {<<>>, <<",">>, <<";">>, <<DQ, "a">>, <<DQ, "a", BS>>, <<DQ, "a", BS, DQ>>,
     <<",">> \o ForEq \o <<"b">>, <<";">> \o ByKey \o <<"=", "x">>,
     <<SP, "a">>, <<"=">>}

NoValueOrigins ==
    {[kind |-> "novalue", items |-> is, spaces |-> n, tail |-> t] :
        is \in SeqsUpTo(ForItems, MaxItems), n \in 0..2, t \in NoValueTails}

\* for-run inputs whose last ',' is not followed by for=
ListTails ==
    {<<>>, <<"a">>, ForKey, ByKey \o <<"=", "x">>, HostKey \o <<"=", "h">>,
     <<"f", "o", "=", "r">>, <<"a", "=", "b", ";">> \o ForEq \o <<"c">>}

BadListOrigins ==
    {[kind |-> "badlist", items |-> is, spaces |-> n, tail |-> t] :
        is \in (SeqsUpTo(ForItems, MaxItems) \ {<<>>}), n \in 0..2,
        t \in ListTails}

\* pair lists that end in a pair without key, without '=' or without value,
\* with or without a further pair behind it
BadPairs ==
    {HostKey, <<"a">>, <<"=", "a">>, ByKey \o <<"=">>, <<"x", "=">>,
     ByKey \o <<"=", DQ, "a">>}

GoodPairs ==
    {Pair(ByKey, <<"a">>, "token"), Pair(HostKey, <<"c">>, "quoted"),
     Pair(ForKey, <<"a">>, "token"), Pair(<<"x">>, <<"a">>, "token")}

BadPairOrigins ==
    {[kind |-> "badpair", pairs |-> ps, bad |-> b, more |-> m] :
        ps \in {qs \in SeqsUpTo(GoodPairs, MaxPairs - 1) :
                   \A i, j \in 1..Len(qs) : qs[i] = qs[j] => i = j},
        b \in BadPairs, m \in BOOLEAN}

\* for-runs and pairs whose keys are written in other cases
CasedFor == {ForKey, <<"F", "o", "r">>, <<"F", "O", "R">>}

CasedItems ==
    {Pair(k, v, "token") : k \in CasedFor, v \in {<<"a">>, <<"b">>}}

CasedPairs ==
    {Pair(<<"B", "y">>, <<"x">>, "token"), Pair(<<"H", "o", "s", "t">>, <<"h">>, "token"),
     Pair(<<"P", "R", "O", "T", "O">>, <<"p">>, "token"),
     Pair(<<"F", "o", "r">>, <<"c">>, "token"),
     Pair(<<"F", "O", "R">>, <<"d">>, "quoted")}

CasedOrigins ==
    {[kind |-> "cased", items |-> is, pairs |-> ps] :
        is \in (SeqsUpTo(CasedItems, MaxItems) \ {<<>>}),
        ps \in SeqsUpTo(CasedPairs, MaxPairs - 1)}

\* for-runs with whitespace before and after each ','
SpacedOrigins ==
    {[kind |-> "spaced", items |-> is, before |-> m, after |-> n] :
        is \in {js \in SeqsUpTo(ForItems, MaxItems) : Len(js) >= 2},
        m \in 0..2, n \in 0..2}

\* pairs written back to back, with no ';' between them
GluePairs ==
    {Pair(ByKey, <<"a">>, "quoted"), Pair(ByKey, <<"a">>, "token"),
     Pair(HostKey, <<"b">>, "token"), Pair(HostKey, <<"b", SP>>, "escaped"),
     Pair(ProtoKey, <<"p">>, "quoted"), Pair(<<"x">>, <<>>, "quoted")}

GluedOrigins ==
    {[kind |-> "glued", pairs |-> ps] :
        ps \in {qs \in SeqsUpTo(GluePairs, MaxPairs) :
                   /\ Len(qs) >= 2
                   /\ \A i, j \in 1..Len(qs) : qs[i].key = qs[j].key => i = j}}

WriteItems(is, n) ==
    Join([i \in 1..Len(is) |-> WritePair(is[i])], <<",">> \o Spaces(n))

WriteInput(o) ==
    CASE o.kind = "raw" -> Concat(o.chunks)
      [] o.kind = "novalue" ->
            WriteItems(o.items, o.spaces)
            \o (IF o.items = <<>> THEN <<>> ELSE <<",">> \o Spaces(o.spaces))
            \o ForEq \o o.tail
      [] o.kind = "badlist" ->
            WriteItems(o.items, o.spaces) \o <<",">> \o Spaces(o.spaces)
            \o o.tail
      [] o.kind = "badpair" ->
            WritePairs(o.pairs) \o (IF o.pairs = <<>> THEN <<>> ELSE <<";">>)
            \o o.bad
            \o (IF o.more THEN <<";">> \o ProtoKey \o <<"=", "p">> ELSE <<>>)
      [] o.kind = "spaced" ->
            Join([i \in 1..Len(o.items) |-> WritePair(o.items[i])],
                 Spaces(o.before) \o <<",">> \o Spaces(o.after))
      [] o.kind = "glued" ->
            Concat([i \in 1..Len(o.pairs) |-> WritePair(o.pairs[i])])
      [] o.kind = "cased" ->
            WriteItems(o.items, 0)
            \o (IF o.pairs = <<>> THEN <<>> ELSE <<";">>)
            \o WritePairs(o.pairs)
      [] o.kind = "forrun" ->
            Join([i \in 1..Len(o.items) |-> WritePair(o.items[i])],
                 <<",">> \o Spaces(o.spaces))
            \o (IF o.closed THEN <<";">> ELSE <<>>)
            \o WritePairs(o.pairs)
      [] o.kind = "pairs" -> WritePairs(o.pairs)

\* header sources: X-Forwarded-For is written from segments (no segment: the
\* header is absent), each a text with spaces before and after it
Seg(t, l, r) == [text |-> t, lpad |-> l, rpad |-> r]

XSegs ==
    {Seg(<<"1", ".", "2", ".", "3", ".", "4">>, 0, 0), Seg(<<"h">>, 1, 1),
     Seg(<<":", ":", "1">>, 1, 0), Seg(<<"0", ":", ":", "1">>, 0, 0),
     Seg(<<"A", ":", ":">>, 0, 1), Seg(<<>>, 0, 0),
     Seg(<<"[", ":", ":", "1", "]">>, 0, 0)}

ForwardedValues ==
    {None, Some(<<"f", "o", "r", "=", "a", ";", "b", "y", "=", "b">>),
     Some(<<"u", "h", SP, "o", "h">>), Some(<<"b", "y">>)}

WriteSeg(g) == Spaces(g.lpad) \o g.text \o Spaces(g.rpad)

HeaderOrigins ==
    {[kind |-> "headers", segs |-> gs, forwarded |-> f, by |-> b, proto |-> p] :
        gs \in SeqsUpTo(XSegs, MaxSegs), f \in ForwardedValues,
        b \in {None, Some(<<SP, "p">>)}, p \in {None, Some(<<"g">>)}}

WriteHeaders(o) ==
    [forwarded |-> o.forwarded,
     x_forwarded_for |->
        IF o.segs = <<>> THEN None
        ELSE Some(Join([i \in 1..Len(o.segs) |-> WriteSeg(o.segs[i])], <<",">>)),
     x_forwarded_by |-> o.by,
     x_forwarded_proto |-> o.proto]

\* status codes: every variant, and OtherInvalidStatusCode of a few numbers
OtherCodes == {0, 99, 202, 404, 505, 600, 65535}

StatusCodes ==
    {<<a[1]>> : a \in IntoArms} \cup {<<Other, n>> : n \in OtherCodes}

StatusOrigins == {[kind |-> "status", status |-> s] : s \in StatusCodes}

\* integers handed to the deserializer, each under the types that hold it
IntSamples ==
    {-65436, -65334, -32768, -1, 0, 99, 100, 202, 404, 511, 600, 32767, 65535,
     65536, 65738, 131274}

IntTypes == {"i16", "i32", "i64", "u16", "u32", "u64"}

InRange(t, v) ==
    CASE t = "i16" -> -32768 <= v /\ v <= 32767
      [] t = "u16" -> 0 <= v /\ v < U16Modulus
      [] t \in {"u32", "u64"} -> 0 <= v
      [] t \in {"i32", "i64"} -> TRUE

IntegerOrigins ==
    {o \in [kind : {"integer"}, type : IntTypes, v : IntSamples] :
        InRange(o.type, o.v)}

\* values given to the builders
ForVals == {<<"a">>, <<>>, <<"b", ";">>, <<DQ, BS, SP>>, <<",", "=">>}
FieldVals == {<<"x">>, <<"y", ";", "z">>}

(***************************************************************************)
(* Initial states.                                                          *)
(***************************************************************************)
InitParse ==
    /\ origin \in RawOrigins \cup ForRunOrigins \cup PairOrigins
                  \cup NoValueOrigins \cup BadListOrigins
                  \cup BadPairOrigins \cup CasedOrigins
                  \cup SpacedOrigins \cup GluedOrigins
    /\ text = WriteInput(origin)
    /\ op = "input"
    /\ fwd = new
    /\ headers = NoHeaders
    /\ result = NoResult
    /\ owned = new
    /\ NoStatusInit

InitModel ==
    /\ origin = [kind |-> "model"]
    /\ fwd = new
    /\ op = "new"
    /\ text = <<>>
    /\ headers = NoHeaders
    /\ result = NoResult
    /\ owned = new
    /\ NoStatusInit

InitHeaders ==
    /\ origin \in HeaderOrigins
    /\ headers = WriteHeaders(origin)
    /\ op = "request"
    /\ fwd = new
    /\ text = <<>>
    /\ result = NoResult
    /\ owned = new
    /\ NoStatusInit

InitStatus ==
    /\ origin \in StatusOrigins
    /\ status = origin.status
    /\ num = 0
    /\ op = "status"
    /\ headers = NoHeaders
    /\ fwd = new
    /\ text = <<>>
    /\ result = NoResult
    /\ owned = new

InitVisit ==
    /\ origin \in IntegerOrigins
    /\ op = "integer"
    /\ status = NoStatus
    /\ num = 0
    /\ headers = NoHeaders
    /\ fwd = new
    /\ text = <<>>
    /\ result = NoResult
    /\ owned = new

Init == InitParse \/ InitModel \/ InitHeaders \/ InitStatus \/ InitVisit

(***************************************************************************)
(* Actions: one per public operation.                                       *)
(***************************************************************************)
Built(name) ==
    /\ op' = name
    /\ text' = <<>>
    /\ result' = NoResult
    /\ UNCHANGED <<headers, origin, owned, status, num>>

SetBy ==
    /\ origin.kind = "model"
    /\ \E v \in FieldVals : fwd' = set_by(fwd, v)
    /\ Built("set_by")

WithBy ==
    /\ origin.kind = "model"
    /\ \E v \in FieldVals : fwd' = with_by(fwd, v)
    /\ Built("with_by")

SetHost ==
    /\ origin.kind = "model"
    /\ \E v \in FieldVals : fwd' = set_host(fwd, v)
    /\ Built("set_host")

WithHost ==
    /\ origin.kind = "model"
    /\ \E v \in FieldVals : fwd' = with_host(fwd, v)
    /\ Built("with_host")

WithProto ==
    /\ origin.kind = "model"
    /\ \E v \in FieldVals : fwd' = with_proto(fwd, v)
    /\ Built("with_proto")

AddFor ==
    /\ origin.kind = "model"
    /\ Len(fwd.forwarded_for) < MaxFor
    /\ \E v \in ForVals : fwd' = add_for(fwd, v)
    /\ Built("add_for")

WithFor ==
    /\ origin.kind = "model"
    /\ Len(fwd.forwarded_for) < MaxFor
    /\ \E v \in ForVals : fwd' = with_for(fwd, v)
    /\ Built("with_for")

\* Forwarded::value() of the model in hand
DoValue ==
    /\ origin.kind = "model"
    /\ op \notin {"value", "parse"}
    /\ text' = value(fwd)
    /\ op' = "value"
    /\ result' = NoResult
    /\ UNCHANGED <<headers, fwd, origin, owned, status, num>>

\* Forwarded::parse(text)
DoParse ==
    /\ op \in {"input", "value"}
    /\ result' = parse(text)
    /\ op' = "parse"
    /\ UNCHANGED <<headers, fwd, text, origin, owned, status, num>>

DoFromHeaders ==
    /\ op = "request"
    /\ result' = from_headers(headers)
    /\ op' = "from_headers"
    /\ UNCHANGED <<headers, fwd, text, origin, owned, status, num>>

DoFromForwardedHeader ==
    /\ op = "request"
    /\ result' = from_forwarded_header(headers)
    /\ op' = "from_forwarded_header"
    /\ UNCHANGED <<headers, fwd, text, origin, owned, status, num>>

DoFromXHeaders ==
    /\ op = "request"
    /\ result' = from_x_headers(headers)
    /\ op' = "from_x_headers"
    /\ UNCHANGED <<headers, fwd, text, origin, owned, status, num>>

\* the Forwarded<'a> that from_* returned holds Cows: every way of making
\* each slot of f a view into the headers or a string of its own
CowsOf(s) == {Borrowed(s), Owned(s)}

OptViews(field) ==
    IF field.some THEN {Some(c) : c \in CowsOf(field.val)} ELSE {None}

SeqViews(ff) ==
    {cs \in [1..Len(ff) -> UNION {CowsOf(ff[i]) : i \in 1..Len(ff)}] :
        \A i \in 1..Len(ff) : cs[i] \in CowsOf(ff[i])}

Views(f) ==
    {[by |-> b, forwarded_for |-> cs, host |-> h, proto |-> p] :
        b \in OptViews(f.by), cs \in SeqViews(f.forwarded_for),
        h \in OptViews(f.host), p \in OptViews(f.proto)}

\* Forwarded::from_headers(&request)?.unwrap().into_owned()
DoIntoOwned ==
    /\ op = "from_headers"
    /\ result.kind = "some"
    /\ \E c \in Views(result.fwd) : owned' = into_owned(c)
    /\ op' = "into_owned"
    /\ UNCHANGED <<headers, fwd, text, result, origin, status, num>>

\* the request is changed or dropped; the borrowed Forwarded went with it
DropRequest ==
    /\ op = "into_owned"
    /\ headers' \in {NoHeaders, [headers EXCEPT !.forwarded = Some(ByKey \o <<"=", "z">>)],
                     [headers EXCEPT !.x_forwarded_for = Some(<<"z">>)]}
    /\ result' = NoResult
    /\ op' = "released"
    /\ UNCHANGED <<fwd, text, origin, owned, status, num>>

\* Serialize: `let value: u16 = (*self).into()`
DoInto ==
    /\ op = "status"
    /\ num' = into(status)
    /\ op' = "into"
    /\ UNCHANGED <<headers, fwd, text, result, origin, owned, status>>

\* Deserialize, visit_u16: `StatusCode::from(v)`
DoFrom ==
    /\ op = "into"
    /\ status' = from(num)
    /\ op' = "from"
    /\ UNCHANGED <<headers, fwd, text, result, origin, owned, num>>

\* Deserialize of an integer: the visitor method of its type
DoVisit ==
    /\ op = "integer"
    /\ status' = Visit(origin.type, origin.v)
    /\ num' = (IF origin.type = "u16" THEN origin.v ELSE as_u16(origin.v))
    /\ op' = "visit"
    /\ UNCHANGED <<headers, fwd, text, result, origin, owned>>

NextModel ==
    \/ SetBy \/ WithBy \/ SetHost \/ WithHost \/ WithProto \/ AddFor \/ WithFor
    \/ DoValue \/ DoParse

NextHeaders == DoFromHeaders \/ DoFromForwardedHeader \/ DoFromXHeaders

NextOwned == DoFromHeaders \/ DoIntoOwned \/ DropRequest

NextStatus == DoInto \/ DoFrom

Next == NextModel \/ NextHeaders \/ NextOwned \/ NextStatus \/ DoVisit

\* every entry point, from every input
Spec == Init /\ [][Next]_vars
\* parse over raw, for-run and pair-list inputs
SpecParse == InitParse /\ [][DoParse]_vars
\* builders, value() and parse of its output
SpecModel == InitModel /\ [][NextModel]_vars
\* the header entry points
SpecHeaders == InitHeaders /\ [][NextHeaders]_vars
\* from_headers, into_owned, and the request going away
SpecOwned == InitHeaders /\ [][NextOwned]_vars
\* a StatusCode written as its number and read back
SpecStatus == InitStatus /\ [][NextStatus]_vars
\* integers of every type read as a StatusCode
SpecVisit == InitVisit /\ [][DoVisit]_vars

(***************************************************************************)
(* Claims.                                                                  *)
(***************************************************************************)
SingleKeys == {ByKey, HostKey, ProtoKey}

FieldOf(f, key) ==
    CASE key = ByKey -> f.by [] key = HostKey -> f.host [] key = ProtoKey -> f.proto

\* the positions of the pairs of ps written with key
Positions(ps, key) == {i \in 1..Len(ps) : ps[i].key = key}

\* the value the pairs ps give to key: that of its first pair, if any
Given(ps, key) ==
    IF Positions(ps, key) = {} THEN None
    ELSE Some(ps[CHOOSE i \in Positions(ps, key) :
                     \A j \in Positions(ps, key) : i <= j].val)

RECURSIVE ValuesOf(_, _)
\* the values of the pairs of ps written with key, in order
ValuesOf(ps, key) ==
    IF ps = <<>> THEN <<>>
    ELSE (IF Head(ps).key = key THEN <<Head(ps).val>> ELSE <<>>)
         \o ValuesOf(Tail(ps), key)

\* C1: for every model m, parse(m.value()) succeeds and yields the same by,
\* host, proto and for_list.
C1_RoundTrip ==
    (op = "parse" /\ origin.kind = "model")
        => (result.kind = "ok" /\ result.fwd = fwd)

\* C2: when a Forwarded header is present, from_headers returns exactly the
\* outcome of parsing it (the model, or the error), whatever the
\* X-Forwarded-* headers hold; they only matter when it is absent.
C2_ForwardedHeaderDecides ==
    (op = "from_headers" /\ headers.forwarded.some)
        => LET p == parse(headers.forwarded.val) IN
           /\ p.kind = "ok" => result.kind = "some" /\ result.fwd = p.fwd
           /\ p.kind # "ok" => result = p

C2_Witness ==
    /\ op = "from_headers"
    /\ headers.forwarded.some
    /\ headers.x_forwarded_for.some
    /\ headers.x_forwarded_proto.some
    /\ result.kind = "err"

\* C3: parse("") succeeds with the empty model.
C3_ParseEmpty ==
    (op = "parse" /\ text = <<>>) => (result.kind = "ok" /\ result.fwd = new)

\* C4: parse returns a model or a ParseError for every input; it never
\* aborts.
C4_NeverAborts == op = "parse" => result.kind \in {"ok", "err"}

\* C5: an input that starts with a for-run of n >= 1 items gives a for_list
\* of exactly their n values in order (quotes stripped, \X read as X), and
\* the pairs after the closing ';' set by, host and proto.
C5_ForRun ==
    (op = "parse" /\ origin.kind = "forrun")
        => /\ result.kind = "ok"
           /\ result.fwd.forwarded_for = ValuesOf(origin.items, ForKey)
           /\ Len(result.fwd.forwarded_for) = Len(origin.items)
           /\ \A k \in SingleKeys : FieldOf(result.fwd, k) = Given(origin.pairs, k)

C5_Witness ==
    /\ op = "parse"
    /\ origin.kind = "forrun"
    /\ Len(origin.items) >= 2
    /\ origin.spaces >= 1
    /\ \E i \in 1..Len(origin.items) : origin.items[i].style = "escaped"
    /\ Len(origin.pairs) >= 3
    /\ result.kind = "ok"
    /\ Len(result.fwd.forwarded_for) >= 2
    /\ result.fwd.by.some

\* C6: a returned model's for_list holds the value of every for= pair of the
\* input in order, also when the pair follows a by=/host=/proto= pair or
\* the ';' that closed the first for-run.
C6_EveryForPair ==
    (op = "parse" /\ origin.kind = "pairs" /\ result.kind = "ok")
        => result.fwd.forwarded_for = ValuesOf(origin.pairs, ForKey)

\* the first position at which by, host or proto is written a second time
FirstRepeat(ps) ==
    LET rep == {j \in 1..Len(ps) :
                   ps[j].key \in SingleKeys
                   /\ \E i \in 1..(j - 1) : ps[i].key = ps[j].key}
    IN IF rep = {} THEN 0 ELSE CHOOSE j \in rep : \A k \in rep : j <= k

DuplicateError(key) ==
    CASE key = ByKey -> ErrDupBy
      [] key = HostKey -> ErrDupHost
      [] key = ProtoKey -> ErrDupProto

\* C7: a second by, host or proto, at any position, makes parse fail with
\* the duplicate-key error; a returned model holds, for each of the three,
\* the only value the input gives it.
C7_DuplicateKey ==
    (op = "parse" /\ origin.kind = "pairs")
        => LET j == FirstRepeat(origin.pairs) IN
           /\ j > 0 => /\ result.kind = "err"
                       /\ result.msg = DuplicateError(origin.pairs[j].key)
           /\ result.kind = "ok" =>
                \A k \in SingleKeys :
                    /\ Cardinality(Positions(origin.pairs, k)) <= 1
                    /\ FieldOf(result.fwd, k) = Given(origin.pairs, k)

C7_Witness ==
    /\ op = "parse"
    /\ origin.kind = "pairs"
    /\ Len(origin.pairs) = 3
    /\ origin.pairs[1].key = HostKey
    /\ origin.pairs[2].key = ByKey
    /\ origin.pairs[3].key = HostKey
    /\ origin.pairs[3].val # origin.pairs[1].val
    /\ result.kind = "err"
    /\ result.msg = ErrDupHost

IsV6(t) == ParseIpAddr(t).kind = "V6"

\* s is the IPv6 address of t between '[' and ']'
BracketedV6(s, t) ==
    /\ Len(s) >= 2
    /\ s[1] = "["
    /\ s[Len(s)] = "]"
    /\ LET inner == SubSeq(s, 2, Len(s) - 1) IN
       /\ IsV6(inner)
       /\ ParseIpAddr(inner).shown = ParseIpAddr(t).shown

\* C8: from_x_headers gives one for_list entry per ','-separated segment of
\* X-Forwarded-For, in order: the trimmed segment, or, when that is a
\* literal IPv6 address, the address between '[' and ']'; X-Forwarded-By and
\* X-Forwarded-Proto become by and proto unchanged.
C8_XForwardedFor ==
    (op = "from_x_headers" /\ result.kind = "some")
        => LET ff == result.fwd.forwarded_for IN
           /\ Len(ff) = Len(origin.segs)
           /\ \A i \in 1..Len(origin.segs) :
                LET t == origin.segs[i].text IN
                IF IsV6(t) THEN BracketedV6(ff[i], t) ELSE ff[i] = t
           /\ result.fwd.by = headers.x_forwarded_by
           /\ result.fwd.proto = headers.x_forwarded_proto

C8_Witness ==
    /\ op = "from_x_headers"
    /\ result.kind = "some"
    /\ Len(origin.segs) = 2
    /\ origin.segs[1].text = <<"h">>
    /\ origin.segs[1].lpad + origin.segs[1].rpad = 2
    /\ origin.segs[2].text = <<"A", ":", ":">>
    /\ result.fwd.forwarded_for = << <<"h">>, <<"[", "a", ":", ":", "]">> >>
    /\ result.fwd.by = Some(<<SP, "p">>)

\* C9: from_x_headers never fails; it returns no result exactly when the
\* three X- headers are all absent, and never sets host.
C9_XHeadersResult ==
    op = "from_x_headers"
        => /\ result.kind \in {"some", "none"}
           /\ result.kind = "none" <=>
                (~headers.x_forwarded_for.some /\ ~headers.x_forwarded_by.some
                 /\ ~headers.x_forwarded_proto.some)
           /\ result.kind = "some" => ~result.fwd.host.some

C9_Witness ==
    /\ op = "from_x_headers"
    /\ ~headers.x_forwarded_for.some
    /\ headers.x_forwarded_by.some
    /\ ~headers.x_forwarded_proto.some
    /\ result.kind = "some"
    /\ result.fwd.forwarded_for = <<>>

RECURSIVE Backslashed(_)
\* s with a backslash before each backslash and each quote
Backslashed(s) ==
    IF s = <<>> THEN <<>>
    ELSE (IF Head(s) = BS \/ Head(s) = DQ THEN <<BS>> ELSE <<>>)
         \o <<Head(s)>> \o Backslashed(Tail(s))

IsToken(e) == e # <<>> /\ \A i \in 1..Len(e) : tchar(e[i])

Emitted(e) == IF IsToken(e) THEN e ELSE <<DQ>> \o Backslashed(e) \o <<DQ>>

\* C10: value() emits a for entry bare exactly when it is a non-empty token,
\* and every other entry, the empty string included, as a quoted string
\* with each backslash and quote escaped.
C10_ForEntryQuoting ==
    (op = "value" /\ ~fwd.by.some /\ ~fwd.host.some /\ ~fwd.proto.some)
        => text = Join([i \in 1..Len(fwd.forwarded_for) |->
                           ForEq \o Emitted(fwd.forwarded_for[i])],
                       <<",", SP>>)

\* key=<value>; with the value written under the quoting rule of for entries
QuotedSection(key, field) ==
    IF field.some THEN key \o <<"=">> \o Emitted(field.val) \o <<";">> ELSE <<>>

NoEmptyFor(f) == \A i \in 1..Len(f.forwarded_for) : f.forwarded_for[i] # <<>>

\* C11: value() writes by, host and proto under the quoting rule of the for
\* entries: bare only when the value is a non-empty token, otherwise quoted
\* with backslash and quote escaped, so that a ';', '=', ',' or space in
\* the value never adds or alters a pair.
C11_FieldQuoting ==
    (op = "value" /\ NoEmptyFor(fwd))
        => text \o <<";">> =
              QuotedSection(ByKey, fwd.by)
              \o Join([i \in 1..Len(fwd.forwarded_for) |->
                          ForEq \o Emitted(fwd.forwarded_for[i])], <<",", SP>>)
              \o <<";">>
              \o QuotedSection(HostKey, fwd.host)
              \o QuotedSection(ProtoKey, fwd.proto)

\* the ways a value may be spelled in the output: as is, or quoted
Forms(v) == {v, Emitted(v), <<DQ>> \o Backslashed(v) \o <<DQ>>}

SectionForms(key, field) ==
    IF field.some
    THEN {key \o <<"=">> \o w \o <<";">> : w \in Forms(field.val)}
    ELSE {<<>>}

ForForms(ff) ==
    {fs \in [1..Len(ff) -> UNION {Forms(ff[i]) : i \in 1..Len(ff)}] :
        \A i \in 1..Len(ff) : fs[i] \in Forms(ff[i])}

\* C12: value() writes, in this order, by=<v>; when by is set, the for
\* entries as for=<v> joined by ", ", one ';', host=<v>; when host is set,
\* proto=<v>; when proto is set, and then drops exactly one trailing ';';
\* the empty model gives the empty string.
C12_SectionOrder ==
    op = "value"
        => /\ \E b \in SectionForms(ByKey, fwd.by),
                 fs \in ForForms(fwd.forwarded_for),
                 h \in SectionForms(HostKey, fwd.host),
                 p \in SectionForms(ProtoKey, fwd.proto) :
                 text \o <<";">> =
                     b \o Join([i \in 1..Len(fs) |-> ForEq \o fs[i]], <<",", SP>>)
                     \o <<";">> \o h \o p
           /\ fwd = new => text = <<>>

C12_Witness ==
    /\ op = "value"
    /\ fwd.by.some
    /\ fwd.host.some
    /\ fwd.proto.some
    /\ fwd.host.val # fwd.proto.val
    /\ Len(fwd.forwarded_for) = 2
    /\ text # <<>>
    /\ text[Len(text)] # ";"

ForOnly(f) ==
    ~f.by.some /\ ~f.host.some /\ ~f.proto.some /\ f.forwarded_for # <<>>

\* C13: for a model holding only for entries, each a non-empty string that
\* may contain quotes, backslashes, ';', ',', '=' and spaces, value() writes
\* every entry that is not a token between quotes with each quote and
\* backslash escaped, and parse of that output returns exactly the original
\* strings in order.
C13_ForOnlyRoundTrip ==
    (op = "parse" /\ origin.kind = "model" /\ ForOnly(fwd) /\ NoEmptyFor(fwd))
        => /\ text = Join([i \in 1..Len(fwd.forwarded_for) |->
                              ForEq \o Emitted(fwd.forwarded_for[i])],
                          <<",", SP>>)
           /\ result.kind = "ok"
           /\ result.fwd.forwarded_for = fwd.forwarded_for
           /\ result.fwd = fwd

C13_Witness ==
    /\ op = "parse"
    /\ origin.kind = "model"
    /\ ForOnly(fwd)
    /\ fwd.forwarded_for = << <<DQ, BS, SP>>, <<",", "=">> >>
    /\ result.kind = "ok"
    /\ Len(result.fwd.forwarded_for) = 2

\* C14: in a for-run, a for= that is followed by neither a token nor a
\* terminated quoted string (by ',', ';', the end of the input, an
\* unterminated quote, ...) makes parse fail with "for= without valid value".
C14_ForWithoutValue ==
    (op = "parse" /\ origin.kind = "novalue")
        => (result.kind = "err" /\ result.msg = ErrForValue)

C14_Witness ==
    /\ op = "parse"
    /\ origin.kind = "novalue"
    /\ Len(origin.items) >= 1
    /\ origin.tail = <<DQ, "a", BS, DQ>>
    /\ result.kind = "err"
    /\ result.msg = ErrForValue

\* C15: in a for-run, when the text after a ',' and the whitespace behind it
\* does not begin with for=, parse fails with "http list must start with
\* for=", also when that text is empty or shorter than four characters.
C15_ListMustContinue ==
    (op = "parse" /\ origin.kind = "badlist")
        => (result.kind = "err" /\ result.msg = ErrListStart)

\* C16: a pair without key token, without '=' after the key, or without a
\* valid value makes parse fail with "parse error in forwarded-pair",
\* wherever it stands and however short the input is.
C16_BadPair ==
    (op = "parse" /\ origin.kind = "badpair")
        => (result.kind = "err" /\ result.msg = ErrPair)

KnownKeys == {ByKey, ForKey, HostKey, ProtoKey}

IsKnown(p) == p.key \in KnownKeys

\* C17: a well-formed pair whose key is none of by, for, host, proto is
\* accepted and changes no field: the input parses to the model that the
\* input without those pairs parses to.
C17_ExtensionIgnored ==
    (op = "parse" /\ origin.kind = "pairs"
     /\ \E i \in 1..Len(origin.pairs) : ~IsKnown(origin.pairs[i]))
        => LET q == parse(WritePairs(SelectSeq(origin.pairs, IsKnown))) IN
           q.kind = "ok" => (result.kind = "ok" /\ result.fwd = q.fwd)

RECURSIVE AllValues(_)
AllValues(is) ==
    IF is = <<>> THEN <<>> ELSE <<Head(is).val>> \o AllValues(Tail(is))

\* C18 (as stated): for= is matched without regard to case only to detect
\* the for-run at the very start; any later key that is not in exact
\* lowercase, a For= or FOR= item after a ',' of the for-run included, is
\* never stored.
C18_OnlyStartIgnoresCase ==
    (op = "parse" /\ origin.kind = "cased" /\ result.kind = "ok")
        => /\ result.fwd.forwarded_for =
                <<origin.items[1].val>> \o ValuesOf(Tail(origin.items), ForKey)
           /\ \A k \in SingleKeys : ~FieldOf(result.fwd, k).some

\* C18 (amended): every item of the for-run at the start is matched without
\* regard to case and stored, also after a ','; the pairs behind the
\* for-run are matched exactly, so For, FOR, By, Host and PROTO pairs are
\* never stored.
C18_ForRunIgnoresCase ==
    (op = "parse" /\ origin.kind = "cased")
        => /\ result.kind = "ok"
           /\ result.fwd.forwarded_for = AllValues(origin.items)
           /\ \A k \in SingleKeys : ~FieldOf(result.fwd, k).some

C18_Witness ==
    /\ op = "parse"
    /\ origin.kind = "cased"
    /\ Len(origin.items) = 2
    /\ origin.items[1].key = ForKey
    /\ origin.items[2].key = <<"F", "O", "R">>
    /\ Len(origin.pairs) = 2
    /\ origin.pairs[1].key = <<"F", "o", "r">>
    /\ origin.pairs[2].key = <<"B", "y">>
    /\ result.kind = "ok"
    /\ result.fwd.forwarded_for = << origin.items[1].val, origin.items[2].val >>

\* the strings of a Forwarded whose slots are Cows
Strs(c) ==
    [by |-> IF c.by.some THEN Some(c.by.val.str) ELSE None,
     forwarded_for |-> [i \in 1..Len(c.forwarded_for) |-> c.forwarded_for[i].str],
     host |-> IF c.host.some THEN Some(c.host.val.str) ELSE None,
     proto |-> IF c.proto.some THEN Some(c.proto.val.str) ELSE None]

AllOwned(c) ==
    /\ c.by.some => c.by.val.cow = "Owned"
    /\ \A i \in 1..Len(c.forwarded_for) : c.forwarded_for[i].cow = "Owned"
    /\ c.host.some => c.host.val.cow = "Owned"
    /\ c.proto.some => c.proto.val.cow = "Owned"

\* C19: into_owned returns a model with the by, host, proto and for_list of
\* the model the headers gave, in which no slot is a view into the headers;
\* it stays so after the headers are changed or dropped.
C19_IntoOwned ==
    op \in {"into_owned", "released"}
        => /\ Strs(owned) = from_headers(WriteHeaders(origin)).fwd
           /\ AllOwned(owned)

C19_Witness ==
    /\ op = "released"
    /\ headers # WriteHeaders(origin)
    /\ owned.by.some
    /\ Len(owned.forwarded_for) = 2
    /\ from_headers(headers).fwd # Strs(owned)

\* C20: every StatusCode s, OtherInvalidStatusCode(n) of any n included,
\* turned into its u16 and back through From<u16>, is a value equal to s.
C20_StatusRoundTrip == op = "from" => status = origin.status

\* C21: in a for-run the ',' may have whitespace on either side: the items
\* are accepted and give the for_list that the same items give when
\* written with a bare ','.
C21_SpaceAroundComma ==
    (op = "parse" /\ origin.kind = "spaced")
        => /\ result.kind = "ok"
           /\ result.fwd.forwarded_for = AllValues(origin.items)
           /\ result = parse(WriteItems(origin.items, 0))

\* C22: parse accepts only inputs whose pairs are separated by ';': pairs
\* written back to back with no ';' between them are rejected with an
\* error.
C22_PairsNeedSeparator ==
    (op = "parse" /\ origin.kind = "glued") => result.kind = "err"

\* what one builder call makes of the model
AppendsFor ==
    \E v \in ForVals :
        fwd' = [fwd EXCEPT !.forwarded_for = fwd.forwarded_for \o <<v>>]

SetsOnly(key) ==
    \E v \in FieldVals :
        /\ FieldOf(fwd', key) = Some(v)
        /\ fwd'.forwarded_for = fwd.forwarded_for
        /\ \A k \in SingleKeys \ {key} : FieldOf(fwd', k) = FieldOf(fwd, k)

BuilderStep ==
    /\ op' \in {"add_for", "with_for"} => AppendsFor
    /\ op' \in {"set_by", "with_by"} => SetsOnly(ByKey)
    /\ op' \in {"set_host", "with_host"} => SetsOnly(HostKey)
    /\ op' = "with_proto" => SetsOnly(ProtoKey)

DoubleSemicolon(t) == \E i \in 1..(Len(t) - 1) : t[i] = ";" /\ t[i + 1] = ";"

\* C24: for every model, parse accepts the string value() produced; and for
\* a model with an empty for_list and by, host or proto set, that string
\* has no empty pair segment: it neither begins with ';' nor holds ";;".
C24_ValueParses ==
    /\ (op = "parse" /\ origin.kind = "model") => result.kind = "ok"
    /\ (op = "value" /\ fwd.forwarded_for = <<>> /\ fwd # new)
           => (Head(text) # ";" /\ ~DoubleSemicolon(text))

\* what can remain of t while it is parsed
Suffixes(t) == {SubSeq(t, i, Len(t)) : i \in 1..(Len(t) + 1)}

\* C25: an iteration of the pair loop of parse, and one of the loop of
\* parse_for, that does not return an error leaves strictly less input than
\* it was given, whatever part of the input it starts on; so parse comes to
\* an end on every input.
C25_LoopsShorten ==
    op = "parse"
        => /\ \A s \in Suffixes(text) :
                /\ s # <<>> =>
                     LET p == parse_forwarded_pair(new, s) IN
                     p.kind = "ok" => Len(p.rest) < Len(s)
                /\ LET b == ParseForBody(new, s) IN
                   b.kind \in {"continue", "break"} => Len(b.rest) < Len(s)
           /\ result.kind \in {"ok", "err", "panic"}

C25_Witness ==
    /\ op = "parse"
    /\ origin.kind = "forrun"
    /\ result.kind = "ok"
    /\ Len(result.fwd.forwarded_for) = 2
    /\ result.fwd.host.some
    /\ result.fwd.proto.some
    /\ ParseForBody(new, text).kind = "continue"
    /\ Len(ParseForBody(new, text).rest) < Len(text)

\* C26: an integer v read as a StatusCode gives a status whose code() is
\* v; an integer outside 0..65535 never becomes the status of another
\* number.
C26_VisitKeepsNumber == op = "visit" => code(status) = origin.v

====
